---------------------------- MODULE Spec2Model ----------------------------
(***************************************************************************)
(* A model of the rejects regular-expression library: the recursive        *)
(* descent parser that builds a Thompson NFA in an arena (parser.rs,       *)
(* nfa.rs) and the two simulations of that NFA, Regex::find (whole-text    *)
(* match, parser.rs) and Rejects::find_end (rejects.rs).                   *)
(*                                                                         *)
(* Characters are their ASCII codes.  Arena indices are 0-based as in the  *)
(* code: state n of a Vec<State> is element n+1 of the sequence.           *)
(***************************************************************************)
EXTENDS Integers, Sequences, FiniteSets, TLC

VARIABLES
    pattern,    \* the pattern given to parse
    corpus,     \* the texts the program may match against the automaton
    pc,         \* "start", "compiled", "rejected", or "aborted" (stack overflow)
    result,     \* what parse returned
    call,       \* the match call that has just returned or aborted, if any
    compiled,   \* the parse calls made so far, each with what it returned
    readers,    \* the match queries under way, one per reader thread
    statelist,  \* a StateList under construction: its states
    fragments   \* the fragments built on it that no operation has taken yet

(***************************************************************************)
(* Characters                                                              *)
(***************************************************************************)
Ord ==
    [c \in {"(", ")", "*", "+", "-", ".", "?", "[", "\\", "]", "^", "|",
            " ", "\t", "_", "Y", "Z",
            "0", "1", "2", "3", "9", "D", "H", "S", "W", "X",
            "a", "b", "c", "d", "e", "h", "l", "o", "s", "w", "z"} |->
        CASE c = " "  -> 32  [] c = "\t" -> 9  [] c = "_" -> 95
          [] c = "Y"  -> 89  [] c = "Z" -> 90
          [] c = "("  -> 40  [] c = ")" -> 41  [] c = "*" -> 42  [] c = "+" -> 43
          [] c = "-"  -> 45  [] c = "." -> 46  [] c = "?" -> 63  [] c = "[" -> 91
          [] c = "\\" -> 92  [] c = "]" -> 93  [] c = "^" -> 94  [] c = "|" -> 124
          [] c = "0"  -> 48  [] c = "1" -> 49  [] c = "2" -> 50  [] c = "3" -> 51
          [] c = "9"  -> 57  [] c = "D" -> 68  [] c = "H" -> 72  [] c = "S" -> 83
          [] c = "W"  -> 87  [] c = "X" -> 88  [] c = "s" -> 115
          [] c = "a"  -> 97  [] c = "b" -> 98  [] c = "c" -> 99  [] c = "d" -> 100
          [] c = "e"  -> 101 [] c = "h" -> 104 [] c = "l" -> 108 [] c = "o" -> 111
          [] c = "w"  -> 119 [] c = "z" -> 122]

\* The text written as a tuple of one-character strings, as a sequence of codes.
Str(t) == [k \in 1..Len(t) |-> Ord[t[k]]]

\* Option::None for a char (end of input) and for a usize (unresolved successor).
None == -1

(***************************************************************************)
(* character_sets.rs                                                       *)
(***************************************************************************)
word_chars == (97..122) \cup (65..90) \cup (48..57) \cup {95}

(***************************************************************************)
(* character_classes of parser.rs                                          *)
(***************************************************************************)
letters == (97..122) \cup (65..90)

\* range(low, high) of character_sets.rs: Err((low, high)) when high < low,
\* else the set the loop over low..high collects.
range(low, high) ==
    IF high < low THEN [ok |-> FALSE, set |-> {}, err |-> <<low, high>>]
    ELSE [ok |-> TRUE, set |-> low..(high - 1), err |-> <<>>]

digits == 48..57

whitespace == {32, 9}

(***************************************************************************)
(* State: the four variants, as records tagged by kind.  The field         *)
(* relinked is history, not a field of the code: it records that link was  *)
(* applied to the state when it had no absent slot to patch.  Nothing the  *)
(* program computes reads it.                                              *)
(***************************************************************************)
make_inclusive_transition(chars) ==
    [kind |-> "Transition", inclusive |-> chars, exclusive |-> {}, out |-> None,
     relinked |-> FALSE]

make_exclusive_transition(chars) ==
    [kind |-> "Transition", inclusive |-> {}, exclusive |-> chars, out |-> None,
     relinked |-> FALSE]

make_split(out1, out2) ==
    [kind |-> "Split", out1 |-> out1, out2 |-> out2, relinked |-> FALSE]

make_match == [kind |-> "Match", relinked |-> FALSE]

make_nil == [kind |-> "Nil", relinked |-> FALSE]

\* The state has a successor slot that is still None.
Unresolved(state) ==
    CASE state.kind = "Transition" -> state.out = None
      [] state.kind = "Split"      -> state.out2 = None
      [] OTHER                     -> FALSE

\* State::set_out: patches Transition.out or Split.out2, nothing for Match/Nil.
set_out(state, newout) ==
    CASE state.kind = "Transition" -> [state EXCEPT !.out = newout]
      [] state.kind = "Split"      -> [state EXCEPT !.out2 = newout]
      [] OTHER                     -> state

(***************************************************************************)
(* StateList: the arena.  Each operation takes the arena and returns the   *)
(* arena after it together with its result.                                *)
(***************************************************************************)
StateAt(states, n) == states[n + 1]

\* add_state: push, return the new state's index (len - 1 after the push).
add_state(states, state) ==
    [states |-> Append(states, state), index |-> Len(states)]

\* link putting a new state in the place of the one it patches
link_whole(states, from, to) ==
    [states EXCEPT ![from + 1] = make_split(to, to)]

\* link: self.states[from].set_out(to)
link(states, from, to) ==
    [states EXCEPT ![from + 1] =
        [set_out(states[from + 1], to) EXCEPT
            !.relinked = @ \/ ~Unresolved(states[from + 1])]]

\* for &dangler in endstates.iter() { self.link(dangler, to) }
RECURSIVE link_all(_, _, _)
link_all(states, endstates, to) ==
    IF endstates = <<>> THEN states
    ELSE link_all(link(states, Head(endstates), to), Tail(endstates), to)

\* Option<Fragment>
NoFragment == [some |-> FALSE]

Fragment(start, endstates) ==
    [some |-> TRUE, start |-> start, endstates |-> endstates]

\* union giving the other fragment when f1 is None
union_either(states, f1opt, f2opt) ==
    IF ~f1opt.some THEN [states |-> states, frag |-> f2opt]
    ELSE IF ~f2opt.some THEN [states |-> states, frag |-> f1opt]
    ELSE LET a == add_state(states, make_split(f1opt.start, f2opt.start))
         IN  [states |-> a.states,
              frag   |-> Fragment(a.index, f1opt.endstates \o f2opt.endstates)]

\* Every fragment operation returns [states, frag].
union(states, f1opt, f2opt) ==
    IF ~f1opt.some THEN [states |-> states, frag |-> NoFragment]
    ELSE IF ~f2opt.some THEN [states |-> states, frag |-> f1opt]
    ELSE LET a == add_state(states, make_split(f1opt.start, f2opt.start))
         IN  [states |-> a.states,
              frag   |-> Fragment(a.index, f1opt.endstates \o f2opt.endstates)]

\* concatenation leaving the danglers of f1 among the endstates it returns
concatenation_keep(states, f1opt, f2opt) ==
    IF ~f1opt.some THEN [states |-> states, frag |-> NoFragment]
    ELSE IF ~f2opt.some THEN [states |-> states, frag |-> f1opt]
    ELSE [states |-> link_all(states, f1opt.endstates, f2opt.start),
          frag   |-> Fragment(f1opt.start, f1opt.endstates \o f2opt.endstates)]

concatenation(states, f1opt, f2opt) ==
    IF ~f1opt.some THEN [states |-> states, frag |-> NoFragment]
    ELSE IF ~f2opt.some THEN [states |-> states, frag |-> f1opt]
    ELSE [states |-> link_all(states, f1opt.endstates, f2opt.start),
          frag   |-> Fragment(f1opt.start, f2opt.endstates)]

\* kleene entered at the body instead of at the Split
kleene_from_body(states, f) ==
    LET a == add_state(states, make_split(f.start, None))
    IN  [states |-> link_all(a.states, f.endstates, a.index),
         frag   |-> Fragment(f.start, <<a.index>>)]

\* kleene keeping the danglers it has linked among its endstates
kleene_keep(states, f) ==
    LET a == add_state(states, make_split(f.start, None))
    IN  [states |-> link_all(a.states, f.endstates, a.index),
         frag   |-> Fragment(a.index, <<a.index>> \o f.endstates)]

kleene(states, f) ==
    LET a == add_state(states, make_split(f.start, None))
    IN  [states |-> link_all(a.states, f.endstates, a.index),
         frag   |-> Fragment(a.index, <<a.index>>)]

question_mark(states, f) ==
    LET a == add_state(states, make_split(f.start, None))
    IN  [states |-> a.states,
         frag   |-> Fragment(a.index, <<a.index>> \o f.endstates)]

\* plus entered at the Split instead of at the body
plus_from_split(states, f) ==
    LET a == add_state(states, make_split(f.start, None))
    IN  [states |-> link_all(a.states, f.endstates, a.index),
         frag   |-> Fragment(a.index, <<a.index>>)]

plus(states, f) ==
    LET a == add_state(states, make_split(f.start, None))
    IN  [states |-> link_all(a.states, f.endstates, a.index),
         frag   |-> Fragment(f.start, <<a.index>>)]

unary_operator(states, f, op) ==
    IF f.some
    THEN CASE op = Ord["*"] -> kleene(states, f)
           [] op = Ord["?"] -> question_mark(states, f)
           [] op = Ord["+"] -> plus(states, f)
           [] OTHER         -> [states |-> states, frag |-> f]
    ELSE [states |-> states, frag |-> NoFragment]

characters(states, chars) ==
    LET a == add_state(states, make_inclusive_transition(chars))
    IN  [states |-> a.states, frag |-> Fragment(a.index, <<a.index>>)]

non_characters(states, chars) ==
    LET a == add_state(states, make_exclusive_transition(chars))
    IN  [states |-> a.states, frag |-> Fragment(a.index, <<a.index>>)]

character(states, c) == characters(states, {c})

(***************************************************************************)
(* Parser: the iterator over the pattern (pos: the next character, 1-based)*)
(* with the index counter and the error list.  The arena the productions   *)
(* build, a separate &mut StateList in the code, travels in the same       *)
(* record.  Every production returns [p, frag]: the parser after it and    *)
(* its Option<Fragment>.  A production that calls two others is written as *)
(* a chain of operators, one per statement, each taking the value of the   *)
(* statement before it.                                                    *)
(***************************************************************************)
\* Parser::new keeping the error list of the parse call before
Parser_new_stale(s) ==
    [input |-> s, pos |-> 1, index |-> 0, errors |-> result.errors,
     states |-> <<>>]

Parser_new(s) ==
    [input |-> s, pos |-> 1, index |-> 0, errors |-> <<>>, states |-> <<>>]

\* self.iter.peek()
peek(p) == IF p.pos <= Len(p.input) THEN p.input[p.pos] ELSE None

\* self.iter.next(), the character it returns being peek(p)
next(p) == IF p.pos <= Len(p.input) THEN [p EXCEPT !.pos = @ + 1] ELSE p

consume(p) == next([p EXCEPT !.index = @ + 1])

\* error_next, forgetting to record the error
error_next_silent(p) == next(p)

\* error_next putting the offset at the front of the list
error_next_front(p) == next([p EXCEPT !.errors = <<p.index>> \o @])

\* error_next recording the error and leaving the token where it is
error_next_stay(p) == [p EXCEPT !.errors = Append(@, p.index)]

error_next(p) == next([p EXCEPT !.errors = Append(@, p.index)])

error_cur(p) == [p EXCEPT !.errors = Append(@, p.index)]

\* The characters every production but parse_unaryop refuses to start with.
Unexpected == {Ord[")"], Ord["*"], Ord["?"], Ord["+"], Ord["|"]}

Absent(p) == [p |-> p, frag |-> NoFragment]

\* The result r of a StateList operation, as the result of a production of p.
With(p, r) == [p |-> [p EXCEPT !.states = r.states], frag |-> r.frag]

\* The loop of parse_term's '[' branch: ok is FALSE where the code returns None.
RECURSIVE class_loop(_, _)
class_loop(p, chars) ==
    LET c  == peek(p)
        c2 == peek(next(p))
    IN  CASE c = Ord["]"]  -> [p |-> next(p), ok |-> TRUE, chars |-> chars]
          [] c = Ord["\\"] ->
                CASE c2 = Ord["]"]  ->
                        class_loop(next(next(p)), chars \cup {Ord["]"]})
                  [] c2 = Ord["\\"] ->
                        class_loop(next(next(p)), chars \cup {Ord["\\"]})
                  [] OTHER -> [p |-> error_cur(next(next(p))), ok |-> FALSE,
                               chars |-> chars]
          [] c = None      -> [p |-> error_cur(next(p)), ok |-> FALSE,
                               chars |-> chars]
          [] OTHER         -> class_loop(next(p), chars \cup {c})

\* The end of the '[' branch: the transition state of the collected set.
class_fragment(negate, body) ==
    IF ~body.ok THEN Absent(body.p)
    ELSE IF negate
         THEN With(body.p, non_characters(body.p.states, body.chars))
         ELSE With(body.p, characters(body.p.states, body.chars))

\* The '[' branch.  The '[' is not consumed before the peek for '^'.
parse_class(p) ==
    IF peek(p) = Ord["^"]
    THEN class_fragment(TRUE, class_loop(next(p), {}))
    ELSE class_fragment(FALSE, class_loop(p, {}))

\* escape taking every character after the backslash as a literal
escape_any(p, c) == With(p, character(p.states, c))

\* The match on the character c after the backslash; p is the parser after it.
escape(p, c) ==
    CASE c = Ord["w"] -> With(p, characters(p.states, letters))
      [] c = Ord["W"] -> With(p, non_characters(p.states, letters))
      [] c = Ord["d"] -> With(p, characters(p.states, digits))
      [] c = Ord["D"] -> With(p, non_characters(p.states, digits))
      [] c = Ord["s"] -> With(p, characters(p.states, whitespace))
      [] c = Ord["S"] -> With(p, non_characters(p.states, whitespace))
      [] c \in {Ord["*"], Ord["+"], Ord["\\"], Ord["("], Ord[")"], Ord["."]} ->
                         With(p, character(p.states, c))
      [] OTHER        -> Absent(error_cur(p))

\* The last branch: a literal character.
literal(p, c) == With(p, character(p.states, c))

parse_term(p) ==
    CASE peek(p) \in Unexpected \cup {Ord["("]} -> Absent(error_next(p))
      [] peek(p) = Ord["\\"] -> escape(next(consume(p)), peek(consume(p)))
      [] peek(p) = Ord["["]  -> parse_class(p)
      [] peek(p) = None      -> Absent(error_next(p))
      [] OTHER               -> literal(consume(p), peek(p))

parse_unaryop(p) ==
    IF peek(p) \in {Ord["?"], Ord["*"], Ord["+"]}
    THEN [p |-> consume(p), op |-> peek(p)]
    ELSE [p |-> p, op |-> None]

\* In the productions below "CHOOSE x \in {F(l) : l \in {G(p)}} : TRUE" is
\* F(G(p)) with the result of G(p) named l, as "let l = ...;" names it in the
\* code: G is evaluated before F starts.
\* statelist.union(l, r)
parse_union_build(l_frag, r) == With(r.p, union(r.p.states, l_frag, r.frag))

\* statelist.concatenation(l, r)
parse_concat_build(l_frag, r) ==
    With(r.p, concatenation(r.p.states, l_frag, r.frag))

\* statelist.unary_operator(l, r)
parse_unary_build(l_frag, r) ==
    With(r.p, unary_operator(r.p.states, l_frag, r.op))

\* let r = self.parse_unaryop()
parse_unary_rest(l) == parse_unary_build(l.frag, parse_unaryop(l.p))

\* if let Some(')') = self.iter.peek() { consume; fragment } else { error; None }
parse_paren_close(inner) ==
    IF peek(inner.p) = Ord[")"]
    THEN [p |-> consume(inner.p), frag |-> inner.frag]
    ELSE Absent(error_next(inner.p))

RECURSIVE parse_union(_), parse_union_prime(_), parse_union_rest(_),
          parse_concat(_), parse_concat_prime(_), parse_concat_rest(_),
          parse_unary(_), parse_paren(_)

parse_paren(p) ==
    CASE peek(p) = Ord["("] ->
             CHOOSE x \in {parse_paren_close(inner) :
                             inner \in {parse_union(consume(p))}} : TRUE
      [] peek(p) \in Unexpected \cup {None} -> Absent(error_next(p))
      [] OTHER -> parse_term(p)

\* The '(' branch and the Some(_) branch of the code are the same.
parse_unary(p) ==
    IF peek(p) \in Unexpected \cup {None} THEN Absent(error_next(p))
    ELSE CHOOSE x \in {parse_unary_rest(l) : l \in {parse_paren(p)}} : TRUE

parse_concat_prime(p) ==
    CASE peek(p) \in {Ord[")"], Ord["|"], None}      -> Absent(p)
      [] peek(p) \in {Ord["*"], Ord["?"], Ord["+"]}  -> Absent(error_next(p))
      [] OTHER                                       -> parse_concat(p)

\* let r = self.parse_concat_prime(statelist)
parse_concat_rest(l) ==
    CHOOSE x \in {parse_concat_build(l.frag, r) :
                    r \in {parse_concat_prime(l.p)}} : TRUE

parse_concat(p) ==
    IF peek(p) \in Unexpected \cup {None} THEN Absent(error_next(p))
    ELSE CHOOSE x \in {parse_concat_rest(l) : l \in {parse_unary(p)}} : TRUE

parse_union_prime(p) ==
    CASE peek(p) \in {Ord[")"], None} -> Absent(p)
      [] peek(p) = Ord["|"]           -> parse_union(consume(p))
      [] OTHER                        -> Absent(error_next(p))

\* let r = self.parse_union_prime(statelist)
parse_union_rest(l) ==
    CHOOSE x \in {parse_union_build(l.frag, r) :
                    r \in {parse_union_prime(l.p)}} : TRUE

parse_union(p) ==
    IF peek(p) \in Unexpected \cup {None} THEN Absent(error_next(p))
    ELSE CHOOSE x \in {parse_union_rest(l) : l \in {parse_concat(p)}} : TRUE

\* Result<Regex, Vec<u32>>
Ok(start, states) ==
    [ok |-> TRUE, start |-> start, states |-> states, errors |-> <<>>]

Err(errors) ==
    [ok |-> FALSE, start |-> 0, states |-> <<>>, errors |-> errors]

\* The check for trailing input left out
trailing_unchecked(p) == p

\* "ensure we are at the end of the string"
trailing(p) == IF peek(p) # None THEN error_next(next(p)) ELSE p

\* The Match state pushed, the danglers of the fragment left as they are
seal_unlinked(states, frag) == add_state(states, make_match).states

\* The Match state and the links to it, which parse makes before the check.
seal(states, frag) ==
    link_all(add_state(states, make_match).states, frag.endstates, Len(states))

\* parse returning the first state of the arena as the start of the automaton
parse_return_from_zero(top, p) ==
    IF top.frag.some
    THEN IF Len(p.errors) > 0 THEN Err(p.errors)
         ELSE Ok(0, seal(top.p.states, top.frag))
    ELSE IF Len(p.errors) > 0 THEN Err(p.errors)
         ELSE Err(<<>>)

\* The returns of parse: top is what parse_union returned, p the parser after
\* the check for trailing input.
parse_return(top, p) ==
    IF top.frag.some
    THEN IF Len(p.errors) > 0 THEN Err(p.errors)
         ELSE Ok(top.frag.start, seal(top.p.states, top.frag))
    ELSE IF Len(p.errors) > 0 THEN Err(p.errors)
         ELSE Err(<<>>)

\* The arena when parse returns, Ok or Err: the Match state is pushed and
\* linked whenever the top level gave a fragment, before errors are looked at.
parse_arena(top) ==
    IF top.frag.some THEN seal(top.p.states, top.frag) ELSE top.p.states

parse_top(top) == parse_return(top, trailing(top.p))

parse(s) == parse_top(parse_union(Parser_new(s)))

(***************************************************************************)
(* Matching.  A compiled automaton is [start, states].  A call returns     *)
(* [overflow, value]: overflow is TRUE when the recursion of               *)
(* epsilon_transition goes deeper than StackLimit frames, which is where   *)
(* the process aborts on a stack overflow instead of returning.  The arena *)
(* of every pattern of the model has fewer than StackLimit states, so a    *)
(* call path that deep repeats a state and the recursion, which never      *)
(* looks at the set it fills, does not end.                                *)
(***************************************************************************)
StackLimit == 16

\* State::transition of parser.rs (the automaton behind Regex::find)
Regex_transition(state, c) ==
    IF state.kind = "Transition"
    THEN IF \/ (Cardinality(state.inclusive) > 0 /\ c \in state.inclusive)
            \/ (Cardinality(state.exclusive) > 0 /\ c \notin state.exclusive)
         THEN state.out
         ELSE None
    ELSE None

\* State::transition of nfa.rs with the wildcard rule written with "or": a
\* transition with either set empty lets every character through.
transition_or(state, c) ==
    IF state.kind = "Transition"
    THEN IF \/ (Cardinality(state.inclusive) > 0 /\ c \in state.inclusive)
            \/ (Cardinality(state.exclusive) > 0 /\ c \notin state.exclusive)
            \/ (Cardinality(state.inclusive) = 0 \/ Cardinality(state.exclusive) = 0)
         THEN state.out
         ELSE None
    ELSE None

\* State::transition of nfa.rs (the automaton behind Rejects::find_end)
transition(state, c) ==
    IF state.kind = "Transition"
    THEN IF \/ (Cardinality(state.inclusive) > 0 /\ c \in state.inclusive)
            \/ (Cardinality(state.exclusive) > 0 /\ c \notin state.exclusive)
            \/ (Cardinality(state.inclusive) = 0 /\ Cardinality(state.exclusive) = 0)
         THEN state.out
         ELSE None
    ELSE None

Returned(value) == [overflow |-> FALSE, value |-> value]

Overflow(value) == [overflow |-> TRUE, value |-> value]

\* The out2 branch inserting out2 without the recursive call on it
epsilon_out2_shallow(regex, st, depth, a) ==
    IF a.overflow \/ st.out2 = None THEN a
    ELSE Returned(a.value \cup {st.out2})

\* epsilon_transition, the same in rejects.rs and parser.rs; depth is the
\* number of its frames on the stack.  The value is the set newstates after it.
RECURSIVE epsilon_transition(_, _, _, _), epsilon_split(_, _, _, _),
          epsilon_out2(_, _, _, _)

\* if let Some(out) = *out2 { insert; recurse }, a being the recursion on out1
epsilon_out2(regex, st, depth, a) ==
    IF a.overflow \/ st.out2 = None THEN a
    ELSE epsilon_transition(regex, a.value \cup {st.out2}, st.out2, depth + 1)

\* match &self.statelist[state]
epsilon_split(regex, newstates, st, depth) ==
    IF st.kind = "Split"
    THEN epsilon_out2(regex, st, depth,
             epsilon_transition(regex, newstates \cup {st.out1}, st.out1,
                                depth + 1))
    ELSE Returned(newstates)

epsilon_transition(regex, newstates, state, depth) ==
    IF depth > StackLimit THEN Overflow(newstates)
    ELSE epsilon_split(regex, newstates, StateAt(regex.states, state), depth)

\* character_transition, once one state of the frontier has given out
character_transition(regex, newstates, out) ==
    epsilon_transition(regex, newstates \cup {out}, out, 1)

\* for &state in states.iter() { character_transition(newstates, state, c) }:
\* outs are the successors the states of the frontier give on c.
RECURSIVE character_transitions(_, _, _), character_transitions_rest(_, _, _)

character_transitions_rest(regex, outs, a) ==
    IF a.overflow THEN a ELSE character_transitions(regex, a.value, outs)

character_transitions_from(regex, newstates, outs, out) ==
    character_transitions_rest(regex, outs \ {out},
                               character_transition(regex, newstates, out))

character_transitions(regex, newstates, outs) ==
    IF outs = {} THEN Returned(newstates)
    ELSE character_transitions_from(regex, newstates, outs,
                                    CHOOSE o \in outs : TRUE)

\* let mut states = HashSet::new(); states.insert(start); epsilon_transition(..)
initial_states(regex) ==
    epsilon_transition(regex, {regex.start}, regex.start, 1)

\* states.into_iter().any(|n| matches!(statelist[n], State::Match))
accept(regex, states) ==
    \E n \in states : StateAt(regex.states, n).kind = "Match"

\* The successors the states of the frontier give on c in Regex::find.
Regex_outs(regex, states, c) ==
    {Regex_transition(StateAt(regex.states, n), c) : n \in states} \ {None}

\* The loop of Regex::find from character i (1-based) on; new is newstates
\* after the inner loop.
RECURSIVE Regex_find_loop(_, _, _, _), Regex_find_step(_, _, _, _)

Regex_find_step(regex, s, i, new) ==
    IF new.overflow THEN Overflow(FALSE)
    ELSE IF Cardinality(new.value) = 0 THEN Returned(FALSE)
         ELSE Regex_find_loop(regex, s, i + 1, new.value)

Regex_find_loop(regex, s, i, states) ==
    IF i > Len(s) THEN Returned(accept(regex, states))
    ELSE Regex_find_step(regex, s, i,
             character_transitions(regex, {}, Regex_outs(regex, states, s[i])))

Regex_find_start(regex, s, init) ==
    IF init.overflow THEN Overflow(FALSE)
    ELSE Regex_find_loop(regex, s, 1, init.value)

Regex_find(regex, s) == Regex_find_start(regex, s, initial_states(regex))

\* The successors the states of the frontier give on c in Rejects::find_end.
find_end_outs(regex, states, c) ==
    {transition(StateAt(regex.states, n), c) : n \in states} \ {None}

\* The loop of Rejects::find_end from character i on (1-based: the code's i
\* is i - 1, and its len is i - 1 at the top of the body).
RECURSIVE find_end_loop(_, _, _, _), find_end_step(_, _, _, _)

\* find_end_step returning the index of the character the frontier died on
find_end_step_late(regex, s, i, new) ==
    IF new.overflow THEN Overflow(-1)
    ELSE IF Cardinality(new.value) = 0 THEN Returned(i - 1)
         ELSE find_end_loop(regex, s, i + 1, new.value)

find_end_step(regex, s, i, new) ==
    IF new.overflow THEN Overflow(-1)
    ELSE IF Cardinality(new.value) = 0 THEN Returned((i - 1) - 1)
         ELSE find_end_loop(regex, s, i + 1, new.value)

\* find_end_loop returning len - 2 for an accepted text
find_end_loop_short(regex, s, i, states) ==
    IF i > Len(s)
    THEN Returned(IF accept(regex, states) THEN Len(s) - 2 ELSE -1)
    ELSE find_end_step(regex, s, i,
             character_transitions(regex, {}, find_end_outs(regex, states, s[i])))

find_end_loop(regex, s, i, states) ==
    IF i > Len(s)
    THEN Returned(IF accept(regex, states) THEN Len(s) - 1 ELSE -1)
    ELSE find_end_step(regex, s, i,
             character_transitions(regex, {}, find_end_outs(regex, states, s[i])))

\* The frontier of find_end after the first n characters of s: states at the
\* top of the loop body for character n + 1.
RECURSIVE find_end_frontier(_, _, _)

find_end_frontier_step(regex, s, n, prev) ==
    IF prev.overflow THEN prev
    ELSE character_transitions(regex, {}, find_end_outs(regex, prev.value, s[n]))

find_end_frontier(regex, s, n) ==
    IF n = 0 THEN initial_states(regex)
    ELSE find_end_frontier_step(regex, s, n, find_end_frontier(regex, s, n - 1))

find_end_start(regex, s, init) ==
    IF init.overflow THEN Overflow(-1)
    ELSE find_end_loop(regex, s, 1, init.value)

find_end(regex, s) == find_end_start(regex, s, initial_states(regex))

(***************************************************************************)
(* The program: a pattern is compiled once, then texts are matched against *)
(* the automaton, until a call aborts the process.                         *)
(***************************************************************************)
MaxPatLen == 5

MaxTextLen == 3

Strings(alphabet, n) == UNION {[1..k -> alphabet] : k \in 0..n}

PatAlphabet == {Ord[c] : c \in {"a", "b", "(", ")", "|", "*", "+", "?"}}

TextAlphabet == {Ord["a"], Ord["b"]}

\* The patterns of the tests of lib.rs and parser.rs and of the documentation
\* that are longer than MaxPatLen or use other characters.
NamedPatterns ==
    {Str(t) : t \in {
        <<"a", "b", "c", "d">>,
        <<"a", "|", "b", "|", "c", "|", "d">>,
        <<"(", "a", "b", ")", "|", "(", "c", "d", ")", "*">>,
        <<"(", "a", "|", "b", "+", "c", "?", "|", "d", ")">>,
        <<"(", "a", "b", "c", "d", ")">>,
        <<"a", "|", "b", "+", "(", "c", "?", "|", "d", ")">>,
        <<"(", "\\", "w", ")">>,
        <<"\\", "\\">>,
        <<"(", "a", "b", "c", "d">>,
        <<"a", "|", "|", "c", "|", "d">>,
        <<")", "a", "a", "a", "b", "(">>,
        <<"a", "|", "b", "+", "c", "?", "|", "d", ")">>,
        <<"(", "a", "b", "c", "d", ")", "(">>,
        <<"(", "\\", "a", ")">>,
        <<"\\">>,
        <<"\\", "\\", "\\">>,
        <<"\\", "w", ")">>,
        <<"(", "a", "b", "c", "|", "a", "b", "d", "|", "a", ")", "*">>}}

Patterns == Strings(PatAlphabet, MaxPatLen) \cup NamedPatterns

\* Texts of main.rs and of the documentation, with other characters.
NamedTexts ==
    {Str(t) : t \in {<<"a", "b", "c", "a", "b", "d", "X", "Y", "Z">>,
                     <<"d", "a", "b", "c">>, <<"a", "b", "d">>}}

Texts == Strings(TextAlphabet, MaxTextLen) \cup NamedTexts

\* Character classes: a body of one to MaxClassItems items, an item a single
\* character or a range, with or without a leading '^' and a trailing '+'.
MaxClassItems == 2

ClassItems ==
    {Str(t) : t \in {<<"a">>, <<"b">>, <<"c">>, <<"a", "-", "c">>, <<"a", "-", "z">>}}

RECURSIVE ClassBodies(_)
ClassBodies(n) ==
    IF n = 1 THEN ClassItems
    ELSE ClassBodies(n - 1) \cup
         {b \o i : b \in ClassBodies(n - 1), i \in ClassItems}

ClassPatterns ==
    {<<Ord["["]>> \o neg \o b \o <<Ord["]"]>> \o op :
        neg \in {<<>>, <<Ord["^"]>>}, b \in ClassBodies(MaxClassItems),
        op \in {<<>>, <<Ord["+"]>>}}

ClassTextAlphabet == {Ord["a"], Ord["b"], Ord["-"], Ord["["]}

\* The texts of the documentation's examples and the short texts.
ClassTexts ==
    Strings(ClassTextAlphabet, MaxTextLen) \cup
    {Str(t) : t \in {<<"h", "e", "l", "l", "o">>, <<"H", "e", "l", "l", "o">>,
                     <<"1", "2", "3">>, <<"a", "b", "c">>}}

vars ==
    <<pattern, corpus, pc, result, call, compiled, readers, statelist,
      fragments>>

\* No StateList under construction outside the parser.
NoStates == <<>>

NoFragments == {}

\* No parse call made before this one, no reader at work.
NoCompiled == <<>>

NoReaders == <<>>

NoCall == [op |-> "none", text |-> <<>>, overflow |-> FALSE,
           matched |-> FALSE, end |-> -1]

NoResult == Err(<<>>)

Init ==
    /\ pattern \in Patterns
    /\ corpus = Texts
    /\ pc = "start"
    /\ result = NoResult
    /\ call = NoCall
    /\ compiled = NoCompiled
    /\ statelist = NoStates
    /\ fragments = NoFragments
    /\ readers = NoReaders

\* Parser::parse(pattern)
Parse ==
    /\ pc = "start"
    /\ result' = parse(pattern)
    /\ pc' = IF result'.ok THEN "compiled" ELSE "rejected"
    /\ UNCHANGED <<pattern, corpus, statelist, fragments, call, compiled, readers>>

\* regex.find(s)
Find(s) ==
    /\ pc = "compiled"
    /\ call.op = "none"
    /\ LET r == Regex_find(result, s)
       IN  /\ call' = [op |-> "find", text |-> s, overflow |-> r.overflow,
                       matched |-> r.value, end |-> -1]
           /\ pc' = IF r.overflow THEN "aborted" ELSE "compiled"
    /\ UNCHANGED <<pattern, corpus, statelist, fragments, result, compiled, readers>>

\* rejects.find_end(s)
FindEnd(s) ==
    /\ pc = "compiled"
    /\ call.op = "none"
    /\ LET r == find_end(result, s)
       IN  /\ call' = [op |-> "find_end", text |-> s, overflow |-> r.overflow,
                       matched |-> FALSE, end |-> r.value]
           /\ pc' = IF r.overflow THEN "aborted" ELSE "compiled"
    /\ UNCHANGED <<pattern, corpus, statelist, fragments, result, compiled, readers>>

\* The caller has used the value; the automaton is ready for the next call.
Return ==
    /\ pc = "compiled"
    /\ call.op # "none"
    /\ call' = NoCall
    /\ UNCHANGED <<pattern, corpus, statelist, fragments, pc, result, compiled, readers>>

Next ==
    \/ Parse
    \/ \E s \in corpus : Find(s)
    \/ \E s \in corpus : FindEnd(s)
    \/ Return

Spec == Init /\ [][Next]_vars

\* A program that makes up to MaxCompiles parse calls, one after the other,
\* and keeps what each returned.
MaxCompiles == 3

AgainPatterns ==
    {Str(t) : t \in {<<"a">>, <<"(">>, <<"a", "*">>, <<"a", "|", "b">>,
                     <<"a", "b">>, <<"(", "a", "*", ")", "*">>,
                     <<"\\", "w", ")">>, <<"(", "a", "b", ")", "*">>}}

InitAgain ==
    /\ pattern = <<>>
    /\ corpus = Texts
    /\ pc = "start"
    /\ result = NoResult
    /\ call = NoCall
    /\ compiled = NoCompiled
    /\ statelist = NoStates
    /\ fragments = NoFragments
    /\ readers = NoReaders

\* Parser::parse(s), after the calls made so far
Compile(s) ==
    /\ Len(compiled) < MaxCompiles
    /\ pattern' = s
    /\ result' = parse(s)
    /\ pc' = IF result'.ok THEN "compiled" ELSE "rejected"
    /\ compiled' = Append(compiled, [pattern |-> s, result |-> result'])
    /\ UNCHANGED <<corpus, statelist, fragments, call, readers>>

NextAgain == \E s \in AgainPatterns : Compile(s)

SpecAgain == InitAgain /\ [][NextAgain]_vars

\* Several readers matching against one automaton: every reader runs the
\* loop of Regex::find or of Rejects::find_end on its own text, with its own
\* local frontier, one character at a step, the steps of the readers
\* interleaved in any order.
MaxReaders == 2

Readers == 1..MaxReaders

ReaderPatterns ==
    {Str(t) : t \in {<<"a">>, <<"a", "b">>, <<"a", "|", "b">>, <<"a", "*", "b">>,
                     <<"(", "a", "b", ")", "*">>, <<"(", "a", "*", ")", "*">>,
                     <<"a", "*", "b", "*">>, <<"a", "+", "b", "?">>}}

ReaderTexts ==
    {Str(t) : t \in {<<>>, <<"a">>, <<"a", "b">>, <<"a", "b", "a">>,
                     <<"a", "a", "b">>}}

IdleReader ==
    [op |-> "none", text |-> <<>>, i |-> 1, states |-> {}, done |-> FALSE,
     overflow |-> FALSE, matched |-> FALSE, end |-> -1]

\* The frontier every reader uses being the one of the first reader
shared_states(rs, r) == rs[1].states

\* let mut states: the frontier is a local of the call
local_states(rs, r) == rs[r].states

InitReaders ==
    /\ pattern \in ReaderPatterns
    /\ corpus = ReaderTexts
    /\ pc = "start"
    /\ result = NoResult
    /\ call = NoCall
    /\ compiled = NoCompiled
    /\ statelist = NoStates
    /\ fragments = NoFragments
    /\ readers = [r \in Readers |-> IdleReader]

\* The reader's call, whose loop has stopped with the given value.
ReaderDone(rd, overflow, matched, end) ==
    [rd EXCEPT !.done = TRUE, !.overflow = overflow, !.matched = matched,
               !.end = end]

\* The call begins: states = {start} and its epsilon closure.
ReaderBegun(op, s, init) ==
    IF init.overflow
    THEN ReaderDone([IdleReader EXCEPT !.op = op, !.text = s], TRUE, FALSE, -1)
    ELSE [IdleReader EXCEPT !.op = op, !.text = s, !.states = init.value]

ReaderBegin(r, op, s) ==
    /\ pc = "compiled"
    /\ readers[r].op = "none"
    /\ readers' = [readers EXCEPT ![r] = ReaderBegun(op, s, initial_states(result))]
    /\ pc' = IF readers'[r].overflow THEN "aborted" ELSE "compiled"
    /\ UNCHANGED <<pattern, corpus, statelist, fragments, result, call, compiled>>

\* After the loop: whether the frontier holds the Match state.
ReaderAtEnd(rd, states) ==
    IF rd.op = "find"
    THEN ReaderDone(rd, FALSE, accept(result, states), -1)
    ELSE ReaderDone(rd, FALSE, FALSE,
                    IF accept(result, states) THEN Len(rd.text) - 1 ELSE -1)

\* One turn of the loop, new being newstates after the inner loop.
ReaderTurned(rd, new) ==
    IF new.overflow THEN ReaderDone(rd, TRUE, FALSE, -1)
    ELSE IF Cardinality(new.value) = 0
         THEN ReaderDone(rd, FALSE, FALSE,
                         IF rd.op = "find" THEN -1 ELSE (rd.i - 1) - 1)
         ELSE [rd EXCEPT !.i = @ + 1, !.states = new.value]

ReaderOuts(rd, states) ==
    IF rd.op = "find"
    THEN Regex_outs(result, states, rd.text[rd.i])
    ELSE find_end_outs(result, states, rd.text[rd.i])

ReaderTurn(rd, states) ==
    IF rd.i > Len(rd.text) THEN ReaderAtEnd(rd, states)
    ELSE ReaderTurned(rd, character_transitions(result, {}, ReaderOuts(rd, states)))

ReaderStep(r) ==
    /\ pc = "compiled"
    /\ readers[r].op # "none"
    /\ ~readers[r].done
    /\ readers' = [readers EXCEPT ![r] = ReaderTurn(readers[r], local_states(readers, r))]
    /\ pc' = IF readers'[r].overflow THEN "aborted" ELSE "compiled"
    /\ UNCHANGED <<pattern, corpus, statelist, fragments, result, call, compiled>>

\* The reader has used the value and is free for its next query.
ReaderReturn(r) ==
    /\ pc = "compiled"
    /\ readers[r].done
    /\ readers' = [readers EXCEPT ![r] = IdleReader]
    /\ UNCHANGED <<pattern, corpus, statelist, fragments, pc, result, call, compiled>>

NextReaders ==
    \/ Parse
    \/ \E r \in Readers : \E s \in corpus : ReaderBegin(r, "find", s)
    \/ \E r \in Readers : \E s \in corpus : ReaderBegin(r, "find_end", s)
    \/ \E r \in Readers : ReaderStep(r)
    \/ \E r \in Readers : ReaderReturn(r)

SpecReaders == InitReaders /\ [][NextReaders]_vars

\* Builder: an automaton put together state by state.  Each method pushes
\* one state on the builder's statelist; build hands start and the statelist
\* to Rejects::from.
Builder_new(start) == [start |-> start, statelist |-> <<>>]

with_transition(b, inclusive, exclusive, out) ==
    [b EXCEPT !.statelist =
        Append(@, [kind |-> "Transition", inclusive |-> inclusive,
                   exclusive |-> exclusive, out |-> out, relinked |-> FALSE])]

with_split(b, out1, out2) ==
    [b EXCEPT !.statelist = Append(@, make_split(out1, out2))]

with_match(b) == [b EXCEPT !.statelist = Append(@, make_match)]

with_nil(b) == [b EXCEPT !.statelist = Append(@, make_nil)]

build(b) == Ok(b.start, b.statelist)

\* The characters the sets of a built Transition are made of, and the
\* characters put to it.
BuilderAlphabet == {Ord["a"], Ord["b"], Ord["."]}

BuilderOuts == {None, 0}

\* The builders of one state.
Builders ==
    {with_transition(Builder_new(0), i, e, o) :
        i \in SUBSET BuilderAlphabet, e \in SUBSET BuilderAlphabet, o \in BuilderOuts}
    \cup {with_split(Builder_new(0), 0, o) : o \in BuilderOuts}
    \cup {with_match(Builder_new(0)), with_nil(Builder_new(0))}

InitBuilder ==
    /\ pattern = <<>>
    /\ corpus = {<<c>> : c \in BuilderAlphabet}
    /\ pc = "start"
    /\ result = NoResult
    /\ call = NoCall
    /\ compiled = NoCompiled
    /\ statelist = NoStates
    /\ fragments = NoFragments
    /\ readers = NoReaders

Build(b) ==
    /\ pc = "start"
    /\ result' = build(b)
    /\ pc' = "compiled"
    /\ UNCHANGED <<pattern, corpus, statelist, fragments, call, compiled, readers>>

\* state.transition(c), the method of nfa.rs
Transition(s) ==
    /\ pc = "compiled"
    /\ call.op = "none"
    /\ call' = [op |-> "nfa::State::transition", c |-> s[1],
                out |-> transition(StateAt(result.states, result.start), s[1])]
    /\ UNCHANGED <<pattern, corpus, statelist, fragments, pc, result, compiled, readers>>

\* state.transition(c), the method of parser.rs
RegexTransition(s) ==
    /\ pc = "compiled"
    /\ call.op = "none"
    /\ call' = [op |-> "parser::State::transition", c |-> s[1],
                out |-> Regex_transition(StateAt(result.states, result.start), s[1])]
    /\ UNCHANGED <<pattern, corpus, statelist, fragments, pc, result, compiled, readers>>

NextBuilder ==
    \/ \E b \in Builders : Build(b)
    \/ \E s \in corpus : Transition(s)
    \/ \E s \in corpus : RegexTransition(s)
    \/ Return

SpecBuilder == InitBuilder /\ [][NextBuilder]_vars

\* The fragment algebra on its own: a StateList the caller builds fragments
\* on, one operation at a step, as the productions of the parser do.  An
\* operation takes its fragments from the caller (they are moved into it)
\* and gives the caller the fragment it returns.  call keeps the operation
\* just made, with the arena before and after it.
MaxStates == 4

MaxFragments == 2

AlgebraAlphabet == {Ord["a"], Ord["b"]}

InitAlgebra ==
    /\ pattern = <<>>
    /\ corpus = {}
    /\ pc = "building"
    /\ result = NoResult
    /\ call = NoCall
    /\ compiled = NoCompiled
    /\ readers = NoReaders
    /\ statelist = <<>>
    /\ fragments = {}

\* What the caller holds once an operation has taken f1 and f2 and returned frag.
Held(f1, f2, frag) ==
    (fragments \ {f1, f2}) \cup (IF frag.some THEN {frag} ELSE {})

\* The operation op on f1 and f2 has returned r = [states, frag].
Operated(op, f1, f2, r) ==
    /\ statelist' = r.states
    /\ fragments' = Held(f1, f2, r.frag)
    /\ call' = [op |-> op, f1 |-> f1, f2 |-> f2, before |-> statelist,
                after |-> r.states, frag |-> r.frag]
    /\ UNCHANGED <<pattern, corpus, pc, result, compiled, readers>>

Building == pc = "building" /\ Len(statelist) < MaxStates

\* statelist.character(c)
Character(c) ==
    /\ Building
    /\ Cardinality(fragments) < MaxFragments
    /\ Operated("character", NoFragment, NoFragment, character(statelist, c))

\* statelist.union(f1, f2), either of them possibly None
Union(f1, f2) ==
    /\ Building
    /\ Operated("union", f1, f2, union(statelist, f1, f2))

\* statelist.concatenation(f1, f2), either of them possibly None
Concatenation(f1, f2) ==
    /\ Building
    /\ Operated("concatenation", f1, f2, concatenation(statelist, f1, f2))

\* statelist.kleene(f)
Kleene(f) ==
    /\ Building
    /\ Operated("kleene", f, NoFragment, kleene(statelist, f))

\* statelist.question_mark(f)
QuestionMark(f) ==
    /\ Building
    /\ Operated("question_mark", f, NoFragment, question_mark(statelist, f))

\* statelist.plus(f)
Plus(f) ==
    /\ Building
    /\ Operated("plus", f, NoFragment, plus(statelist, f))

\* let match_state = statelist.add_state(State::make_match()), the caller
\* holding the one fragment it is about to link to it
AddMatch(f) ==
    /\ pc = "building"
    /\ fragments = {f}
    /\ statelist' = add_state(statelist, make_match).states
    /\ call' = [op |-> "add_state", f1 |-> f, f2 |-> NoFragment,
                before |-> statelist, after |-> statelist',
                index |-> add_state(statelist, make_match).index,
                rest |-> f.endstates]
    /\ pc' = "sealing"
    /\ UNCHANGED <<pattern, corpus, result, compiled, readers, fragments>>

\* One turn of for &dangler in frag.endstates.iter() { link(dangler, match_state) }
LinkDangler ==
    /\ pc = "sealing"
    /\ call.rest # <<>>
    /\ statelist' = link(statelist, Head(call.rest), call.index)
    /\ call' = [op |-> "link", f1 |-> call.f1, f2 |-> NoFragment,
                before |-> statelist, after |-> statelist',
                index |-> call.index, from |-> Head(call.rest),
                rest |-> Tail(call.rest)]
    /\ UNCHANGED <<pattern, corpus, pc, result, compiled, readers, fragments>>

\* Regex::new(frag.start, statelist): the loop is over.
Sealed ==
    /\ pc = "sealing"
    /\ call.rest = <<>>
    /\ result' = Ok(call.f1.start, statelist)
    /\ pc' = "compiled"
    /\ fragments' = {}
    /\ UNCHANGED <<pattern, corpus, call, compiled, readers, statelist>>

Operands == fragments \cup {NoFragment}

\* The second operand is another fragment than the first, or None.
OtherOperands(f1) == (fragments \ {f1}) \cup {NoFragment}

NextAlgebra ==
    \/ \E c \in AlgebraAlphabet : Character(c)
    \/ \E f1 \in Operands : \E f2 \in OtherOperands(f1) : Union(f1, f2)
    \/ \E f1 \in Operands : \E f2 \in OtherOperands(f1) : Concatenation(f1, f2)
    \/ \E f \in fragments : Kleene(f)
    \/ \E f \in fragments : QuestionMark(f)
    \/ \E f \in fragments : Plus(f)
    \/ \E f \in fragments : AddMatch(f)
    \/ LinkDangler
    \/ Sealed

SpecAlgebra == InitAlgebra /\ [][NextAlgebra]_vars

\* Ranges: the classes with a range in them given to parse, and range of
\* the character-class library called on pairs of bytes.
RangePatterns ==
    {Str(t) : t \in {<<"[", "9", "-", "0", "]">>, <<"[", "0", "-", "9", "]">>,
                     <<"[", "a", "-", "a", "]">>, <<"[", "c", "-", "a", "]">>}}

RangeBytes == {Ord["0"], Ord["1"], Ord["2"], Ord["9"], Ord["a"], Ord["c"]}

InitRange ==
    /\ pattern \in RangePatterns
    /\ corpus = {}
    /\ pc = "start"
    /\ result = NoResult
    /\ call = NoCall
    /\ compiled = NoCompiled
    /\ statelist = NoStates
    /\ fragments = NoFragments
    /\ readers = NoReaders

\* character_sets::range(low, high)
Range(low, high) ==
    /\ call.op = "none"
    /\ call' = [op |-> "range", low |-> low, high |-> high,
                value |-> range(low, high)]
    /\ UNCHANGED <<pattern, corpus, pc, result, compiled, readers, statelist,
                   fragments>>

RangeReturn ==
    /\ call.op = "range"
    /\ call' = NoCall
    /\ UNCHANGED <<pattern, corpus, pc, result, compiled, readers, statelist,
                   fragments>>

NextRange ==
    \/ Parse
    \/ \E low \in RangeBytes : \E high \in RangeBytes : Range(low, high)
    \/ RangeReturn

SpecRange == InitRange /\ [][NextRange]_vars

\* The parser alone: parse called on a pattern, nothing else.  The call is
\* made sooner or later; whether it returns is up to parse.
ParsePatterns == Patterns \cup ClassPatterns \cup RangePatterns

InitParse ==
    /\ pattern \in ParsePatterns
    /\ corpus = {}
    /\ pc = "start"
    /\ result = NoResult
    /\ call = NoCall
    /\ compiled = NoCompiled
    /\ statelist = NoStates
    /\ fragments = NoFragments
    /\ readers = NoReaders

NextParse == Parse

\* The step from the call of parse to its return.
ParseReturns == pc = "start" /\ pc' \in {"compiled", "rejected"}

\* A call of parse, once made, is run: nothing else is scheduled before it.
SpecParse == InitParse /\ [][NextParse]_vars /\ WF_pc(ParseReturns)

\* Terms: '.', the escapes, and what surrounds them.
MaxTermLen == 3

TermAlphabet ==
    {Ord[c] : c \in {".", "\\", "w", "W", "d", "D", "s", "S", "*", "+", "(", ")", "a"}}

\* With the patterns of test_invalid_regexes that hold an escape.
TermPatterns ==
    Strings(TermAlphabet, MaxTermLen) \cup
    {Str(t) : t \in {<<"(", "\\", "a", ")">>, <<"\\", "\\", "\\">>}}

\* One character of every kind the escapes tell apart.
TermTextAlphabet ==
    {Ord[c] : c \in {"a", "Z", "0", "9", "_", " ", "\t", ".", "*", "+", "\\",
                     "(", ")", "w", "-"}}

TermTexts ==
    Strings(TermTextAlphabet, 1) \cup Strings({Ord["a"], Ord["."]}, MaxTextLen)

\* The program given a term to compile.
InitTerm ==
    /\ pattern \in TermPatterns
    /\ corpus = TermTexts
    /\ pc = "start"
    /\ result = NoResult
    /\ call = NoCall
    /\ compiled = NoCompiled
    /\ statelist = NoStates
    /\ fragments = NoFragments
    /\ readers = NoReaders

SpecTerm == InitTerm /\ [][Next]_vars

\* The program given a character class to compile.
InitClass ==
    /\ pattern \in ClassPatterns
    /\ corpus = ClassTexts
    /\ pc = "start"
    /\ result = NoResult
    /\ call = NoCall
    /\ compiled = NoCompiled
    /\ statelist = NoStates
    /\ fragments = NoFragments
    /\ readers = NoReaders

SpecClass == InitClass /\ [][Next]_vars

(***************************************************************************)
(* What a pattern is and what it denotes, read off the grammar and not off *)
(* the parser.  p[i..j] is the part of the pattern looked at and t[a..b]   *)
(* the part of the text; an empty part has j = i - 1 (b = a - 1).          *)
(*     UNION  := CONCAT ('|' CONCAT)*                                      *)
(*     CONCAT := UNARY+                                                    *)
(*     UNARY  := PAREN ['*' | '?' | '+']                                   *)
(*     PAREN  := TERM | '(' UNION ')'                                      *)
(*     TERM   := literal | '\' ESCAPE                                      *)
(***************************************************************************)
Structural == {Ord["("], Ord[")"], Ord["|"], Ord["*"], Ord["?"], Ord["+"]}

EscapeChars ==
    {Ord[c] : c \in {"w", "W", "d", "D", "s", "S", "*", "+", "\\", "(", ")", "."}}

IsLiteral(c) == c \notin Structural \cup {Ord["\\"], Ord["["], Ord["]"], Ord["."]}

\* '.' and a stray ']' are terms of one character too.
IsTerm(p, i, j) ==
    \/ i = j /\ p[i] \notin Structural \cup {Ord["\\"], Ord["["]}
    \/ j = i + 1 /\ p[i] = Ord["\\"] /\ p[j] \in EscapeChars

RECURSIVE IsUnion(_, _, _), IsConcat(_, _, _), IsUnary(_, _, _), IsParen(_, _, _)

IsParen(p, i, j) ==
    \/ IsTerm(p, i, j)
    \/ j >= i + 2 /\ p[i] = Ord["("] /\ p[j] = Ord[")"] /\ IsUnion(p, i + 1, j - 1)

IsUnary(p, i, j) ==
    \/ IsParen(p, i, j)
    \/ j > i /\ p[j] \in {Ord["*"], Ord["?"], Ord["+"]} /\ IsParen(p, i, j - 1)

IsConcat(p, i, j) ==
    \/ IsUnary(p, i, j)
    \/ \E k \in i..(j - 1) : IsUnary(p, i, k) /\ IsConcat(p, k + 1, j)

IsUnion(p, i, j) ==
    \/ IsConcat(p, i, j)
    \/ \E k \in (i + 1)..(j - 1) :
          p[k] = Ord["|"] /\ IsConcat(p, i, k - 1) /\ IsUnion(p, k + 1, j)

Derivable(p) == IsUnion(p, 1, Len(p))

\* Built from literal characters, grouping and the operators only.
LiteralPattern(p) == \A k \in 1..Len(p) : p[k] \in Structural \/ IsLiteral(p[k])

RECURSIVE InUnion(_, _, _, _, _, _), InConcat(_, _, _, _, _, _),
          InUnary(_, _, _, _, _, _), InParen(_, _, _, _, _, _),
          InStar(_, _, _, _, _, _)

InTerm(p, i, j, t, a, b) == i = j /\ a = b /\ IsLiteral(p[i]) /\ t[a] = p[i]

InParen(p, i, j, t, a, b) ==
    \/ InTerm(p, i, j, t, a, b)
    \/ /\ j >= i + 2 /\ p[i] = Ord["("] /\ p[j] = Ord[")"]
       /\ InUnion(p, i + 1, j - 1, t, a, b)

\* Zero or more non-empty pieces, each in the language of PAREN p[i..j].
InStar(p, i, j, t, a, b) ==
    \/ a > b
    \/ \E m \in a..b : InParen(p, i, j, t, a, m) /\ InStar(p, i, j, t, m + 1, b)

InUnary(p, i, j, t, a, b) ==
    \/ InParen(p, i, j, t, a, b)
    \/ /\ j > i /\ IsParen(p, i, j - 1)
       /\ \/ p[j] = Ord["*"] /\ InStar(p, i, j - 1, t, a, b)
          \/ /\ p[j] = Ord["+"]
             /\ \E m \in (a - 1)..b : /\ InParen(p, i, j - 1, t, a, m)
                                      /\ InStar(p, i, j - 1, t, m + 1, b)
          \/ p[j] = Ord["?"] /\ (a > b \/ InParen(p, i, j - 1, t, a, b))

InConcat(p, i, j, t, a, b) ==
    \/ InUnary(p, i, j, t, a, b)
    \/ \E k \in i..(j - 1) :
          /\ IsUnary(p, i, k) /\ IsConcat(p, k + 1, j)
          /\ \E m \in (a - 1)..b : /\ InUnary(p, i, k, t, a, m)
                                   /\ InConcat(p, k + 1, j, t, m + 1, b)

InUnion(p, i, j, t, a, b) ==
    \/ InConcat(p, i, j, t, a, b)
    \/ \E k \in (i + 1)..(j - 1) :
          /\ p[k] = Ord["|"] /\ IsConcat(p, i, k - 1) /\ IsUnion(p, k + 1, j)
          /\ (InConcat(p, i, k - 1, t, a, b) \/ InUnion(p, k + 1, j, t, a, b))

\* The whole of t belongs to the language the pattern p denotes.
InLanguage(p, t) == InUnion(p, 1, Len(p), t, 1, Len(t))

\* The characters a class body b[k..] lists: c1 '-' c2 is the range from c1
\* to c2, any other character stands for itself.
RECURSIVE ClassListed(_, _)
ClassListed(b, k) ==
    IF k > Len(b) THEN {}
    ELSE IF k + 2 <= Len(b) /\ b[k + 1] = Ord["-"]
         THEN (b[k]..b[k + 2]) \cup ClassListed(b, k + 3)
         ELSE {b[k]} \cup ClassListed(b, k + 1)

\* p is '[' ['^'] body ']' ['+'].
ClassRepeats(p) == p[Len(p)] = Ord["+"]

ClassNegated(p) == p[2] = Ord["^"]

ClassBody(p) ==
    SubSeq(p, IF ClassNegated(p) THEN 3 ELSE 2,
              IF ClassRepeats(p) THEN Len(p) - 2 ELSE Len(p) - 1)

\* The character c is one the class of p matches.
InClass(p, c) == (c \in ClassListed(ClassBody(p), 1)) # ClassNegated(p)

\* The whole of t belongs to the language the class pattern p denotes.
InClassLanguage(p, t) ==
    /\ IF ClassRepeats(p) THEN Len(t) >= 1 ELSE Len(t) = 1
    /\ \A k \in 1..Len(t) : InClass(p, t[k])

\* is_match(u) is true: the call returns, and returns true.
Accepts(regex, u) == Regex_find(regex, u) = Returned(TRUE)

Prefix(s, n) == SubSeq(s, 1, n)

Parsed == pc \in {"compiled", "rejected", "aborted"}

(***************************************************************************)
(* Checks                                                                  *)
(***************************************************************************)

\* A match call that returns, returns whether the text is in the language.
FindIsLanguageWhenItReturns ==
    (call.op = "find" /\ ~call.overflow /\ LiteralPattern(pattern))
        => (call.matched <=> InLanguage(pattern, call.text))

\* C1: for every accepted pattern built from literals, grouping, '|', '*',
\* '+' and '?' and every text s, is_match(s) returns true exactly when the
\* whole of s is in the language the pattern denotes.
C1_IsMatchDecidesLanguage ==
    (call.op = "find" /\ LiteralPattern(pattern))
        => /\ ~call.overflow
           /\ call.matched <=> InLanguage(pattern, call.text)

\* C2: is_match and find_end are total: on every automaton parse produces
\* and every text, the call returns a value without a runtime error.
C2_MatchIsTotal == call.op # "none" => ~call.overflow

\* C3: whenever find_end(s) returns r >= 0, the prefix of the first r + 1
\* characters of s is accepted and no longer prefix of s is accepted.
C3_FindEndIsLongestPrefix ==
    (call.op = "find_end" /\ ~call.overflow /\ call.end >= 0)
        => \A n \in (call.end + 1)..Len(call.text) :
               Accepts(result, Prefix(call.text, n)) <=> (n = call.end + 1)

\* C4: whenever find_end(s) returns -1, no non-empty prefix of s is accepted.
C4_MinusOneMeansNoPrefix ==
    (call.op = "find_end" /\ ~call.overflow /\ call.end = -1)
        => \A n \in 1..Len(call.text) : ~Accepts(result, Prefix(call.text, n))

\* C5 as stated: for every text s, the empty text included, if
\* find_end(s) = length(s) - 1 then is_match(s) is true.
C5_FindEndAtEndIsMatch ==
    (call.op = "find_end" /\ ~call.overflow /\ call.end = Len(call.text) - 1)
        => Accepts(result, call.text)

\* C5 amended: for every non-empty text s, if find_end(s) = length(s) - 1
\* then is_match(s) is true.
C5_FindEndAtEndIsMatchNonEmpty ==
    (/\ call.op = "find_end" /\ ~call.overflow
     /\ Len(call.text) > 0 /\ call.end = Len(call.text) - 1)
        => Accepts(result, call.text)

C5_Witness ==
    /\ call.op = "find_end" /\ ~call.overflow
    /\ Len(call.text) > 1 /\ call.end = Len(call.text) - 1

\* C6: for every text s, if find_end(s) < length(s) - 1 then is_match(s) is
\* false.
C6_FindEndShortIsNoMatch ==
    (call.op = "find_end" /\ ~call.overflow /\ call.end < Len(call.text) - 1)
        => Regex_find(result, call.text) = Returned(FALSE)

\* find_end stopped in the middle of the text, on a dead frontier.
C6_Witness ==
    /\ call.op = "find_end" /\ ~call.overflow
    /\ call.end >= 0 /\ call.end < Len(call.text) - 1

TopLevel == parse_union(Parser_new(pattern))

\* C8: whenever parse returns Err, the list of offsets is not empty.
C8_ErrHasOffsets == pc = "rejected" => Len(result.errors) > 0

\* parse returned Err on the path on which the top level gave no fragment.
C8_Witness == pc = "rejected" /\ ~TopLevel.frag.some

\* C9: when the top level yields a fragment and characters are left, parse
\* records a trailing-input error at the position (0-based) of the first
\* character left over.
C9_TrailingErrorAtLeftover ==
    (Parsed /\ TopLevel.frag.some /\ peek(TopLevel.p) # None)
        => /\ Len(result.errors) > 0
           /\ result.errors[Len(result.errors)] = TopLevel.p.pos - 1

\* C10: a class without a leading '^' matches one character exactly when the
\* character is listed in its body or lies in one of its ranges, a class with
\* a leading '^' exactly the other characters: is_match on a class pattern
\* decides the language of the class, and find_end on a text of one character
\* returns 0 exactly when the class matches the character.
C10_ClassMatchesListedOrRanged ==
    /\ (call.op = "find" /\ pattern \in ClassPatterns)
           => /\ ~call.overflow
              /\ call.matched <=> InClassLanguage(pattern, call.text)
    /\ (call.op = "find_end" /\ pattern \in ClassPatterns /\ Len(call.text) = 1)
           => /\ ~call.overflow
              /\ call.end = 0 <=> InClass(pattern, call.text[1])

\* C11: for the pattern ".", is_match(s) is true for every text s of one
\* character and false for every text of another length.
C11_DotMatchesAnyOneCharacter ==
    (call.op = "find" /\ pattern = <<Ord["."]>>)
        => /\ ~call.overflow
           /\ call.matched <=> Len(call.text) = 1

\* The pattern is a backslash and one of the supported escape characters.
OneEscape == Len(pattern) = 2 /\ pattern[1] = Ord["\\"] /\ pattern[2] \in EscapeChars

\* What the escape character x is documented to match.
EscapeMatches(x, c) ==
    CASE x = Ord["w"] -> c \in word_chars
      [] x = Ord["W"] -> c \notin word_chars
      [] x = Ord["d"] -> c \in 48..57
      [] x = Ord["D"] -> c \notin 48..57
      [] x = Ord["s"] -> c \in {32, 9}
      [] x = Ord["S"] -> c \notin {32, 9}
      [] OTHER        -> c = x

\* C12: an escape matches exactly one character, of the documented class:
\* \w a letter, a digit or '_', \d a digit, \s a space or a tab, the upper
\* case forms the complement, and \* \+ \\ \( \) \. that very character.
C12_EscapesMatchDocumentedClasses ==
    (call.op = "find" /\ OneEscape)
        => /\ ~call.overflow
           /\ call.matched <=> /\ Len(call.text) = 1
                                /\ EscapeMatches(pattern[2], call.text[1])

\* The escapes other than \w and \W match what is documented.
C12_OtherEscapesMatch ==
    (call.op = "find" /\ OneEscape /\ pattern[2] \notin {Ord["w"], Ord["W"]})
        => /\ ~call.overflow
           /\ call.matched <=> /\ Len(call.text) = 1
                                /\ EscapeMatches(pattern[2], call.text[1])

\* Reading p from character k on, a backslash is met that no supported escape
\* character follows.
RECURSIVE InvalidEscapeFrom(_, _)
InvalidEscapeFrom(p, k) ==
    IF k > Len(p) THEN FALSE
    ELSE IF p[k] # Ord["\\"] THEN InvalidEscapeFrom(p, k + 1)
    ELSE IF k = Len(p) \/ p[k + 1] \notin EscapeChars THEN TRUE
    ELSE InvalidEscapeFrom(p, k + 2)

MunchPattern ==
    Str(<<"(", "a", "b", "c", "|", "a", "b", "d", "|", "a", ")", "*">>)

MunchText == Str(<<"a", "b", "c", "a", "b", "d", "X", "Y", "Z">>)

\* C14: if the text is u c w with u non-empty and accepted, and no Transition
\* state of the frontier reached after u matches c, then find_end returns
\* length(u) - 1; for "(abc|abd|a)*", find_end("abcabdXYZ") returns 5.
C14_FindEndStopsAtDeadCharacter ==
    /\ (call.op = "find_end" /\ ~call.overflow)
          => \A n \in 1..(Len(call.text) - 1) :
                (/\ Accepts(result, Prefix(call.text, n))
                 /\ find_end_outs(result,
                        find_end_frontier(result, call.text, n).value,
                        call.text[n + 1]) = {})
                    => call.end = n - 1
    /\ (call.op = "find_end" /\ pattern = MunchPattern /\ call.text = MunchText)
          => ~call.overflow /\ call.end = 5

\* The documented example has been run.
C14_Witness ==
    /\ call.op = "find_end" /\ pattern = MunchPattern /\ call.text = MunchText
    /\ call.end = 5

\* The same outcome and, when Ok, the same value of is_match and of find_end
\* on every text.
SameBehaviour(r1, r2) ==
    /\ r1.ok = r2.ok
    /\ r1.ok => \A t \in corpus : /\ Regex_find(r1, t) = Regex_find(r2, t)
                                  /\ find_end(r1, t) = find_end(r2, t)

Alone(rd) ==
    IF rd.op = "find"
    THEN [overflow |-> Regex_find(result, rd.text).overflow,
          matched  |-> Regex_find(result, rd.text).value, end |-> -1]
    ELSE [overflow |-> find_end(result, rd.text).overflow,
          matched  |-> FALSE, end |-> find_end(result, rd.text).value]

QueriesAsAlone ==
    \A r \in DOMAIN readers :
        readers[r].done
            => [overflow |-> readers[r].overflow, matched |-> readers[r].matched,
                end |-> readers[r].end] = Alone(readers[r])

\* C16: matching never changes the automaton (its start index and every
\* state of the arena stay what parse returned), and every query, however
\* its steps are interleaved with those of the other readers, returns what
\* it returns when run alone.
C16_ReadersDoNotInterfere ==
    /\ []QueriesAsAlone
    /\ [][pc = "compiled" => result' = result]_vars

\* Two queries on different texts, interleaved, have both finished.
C16_Witness ==
    /\ DOMAIN readers = Readers
    /\ readers[1].done /\ readers[2].done
    /\ readers[1].text # readers[2].text
    /\ Len(readers[1].text) > 1 /\ Len(readers[2].text) > 1
    /\ readers[1].matched /\ readers[2].end >= 0

\* Indices into the arena of an automaton.
Indices(regex) == 0..(Len(regex.states) - 1)

Resolved(regex, state) ==
    CASE state.kind = "Transition" ->
            state.out # None /\ state.out \in Indices(regex)
      [] state.kind = "Split" ->
            /\ state.out1 \in Indices(regex)
            /\ state.out2 # None /\ state.out2 \in Indices(regex)
      [] state.kind = "Match" -> TRUE
      [] OTHER -> FALSE

\* C17: in every automaton parse returns as Ok, every Transition.out and
\* every Split.out2 is resolved, every successor index and the start index
\* are indices into the arena, and no state of the arena is Nil.
C17_OkAutomatonIsResolved ==
    result.ok =>
        /\ result.start \in Indices(result)
        /\ \A n \in Indices(result) : Resolved(result, StateAt(result.states, n))

\* An Ok automaton with a Split whose out2 was patched after its creation
\* and Transitions linked to the Match state.
C17_Witness ==
    /\ result.ok
    /\ \E n \in Indices(result) :
          /\ StateAt(result.states, n).kind = "Split"
          /\ StateAt(result.states, n).out2 = Len(result.states) - 1
    /\ \E n \in Indices(result) :
          /\ StateAt(result.states, n).kind = "Transition"
          /\ StateAt(result.states, n).out = Len(result.states) - 1

Distinct(seq) == \A i, j \in DOMAIN seq : seq[i] = seq[j] => i = j

\* C18: during one parse, whether it ends Ok or Err, link is only applied
\* to a state whose Transition.out or Split.out2 is still absent: never to a
\* resolved slot, a Match or a Nil state.  The danglers of the fragment the
\* top level returns are distinct states, each still with its absent slot.
C18_LinkPatchesAbsentSlotOnce ==
    pc # "start" =>
        \A top \in {TopLevel} :
            /\ \A arena \in {parse_arena(top)} :
                  \A n \in DOMAIN arena : ~arena[n].relinked
            /\ top.frag.some =>
                  /\ Distinct(top.frag.endstates)
                  /\ \A i \in DOMAIN top.frag.endstates :
                        Unresolved(StateAt(top.p.states, top.frag.endstates[i]))

\* A parse in which danglers were linked inside the pattern and the top
\* fragment still holds several of them.
C18_Witness ==
    /\ pc # "start"
    /\ TopLevel.frag.some
    /\ Len(TopLevel.frag.endstates) >= 2
    /\ \E n \in DOMAIN TopLevel.p.states : ~Unresolved(TopLevel.p.states[n])
    /\ \E n \in DOMAIN TopLevel.p.states :
          /\ TopLevel.p.states[n].kind = "Transition"
          /\ TopLevel.p.states[n].out # None

\* The predicate as the claim states it.
Matches(state, c) ==
    \/ (state.inclusive # {} /\ c \in state.inclusive)
    \/ (state.exclusive # {} /\ c \notin state.exclusive)
    \/ (state.inclusive = {} /\ state.exclusive = {})

\* The successor a state yields on c: out when the state is a Transition
\* whose predicate holds, none otherwise.
Successor(state, c) ==
    IF state.kind = "Transition" /\ Matches(state, c) THEN state.out ELSE None

\* C19: a Transition yields its out on c exactly when inclusive is non-empty
\* and contains c, or exclusive is non-empty and does not contain c, or both
\* sets are empty; a state of another kind yields no successor; and both
\* implementations of the method, that of nfa.rs and that of parser.rs,
\* compute this function.
C19_TransitionIsOneFunction ==
    call.op \in {"nfa::State::transition", "parser::State::transition"}
        => call.out = Successor(StateAt(result.states, result.start), call.c)

\* The method of nfa.rs computes the function.
C19_NfaTransitionIsTheFunction ==
    call.op = "nfa::State::transition"
        => call.out = Successor(StateAt(result.states, result.start), call.c)

\* The states a Split leads to without a character.
SplitEdges(regex, n) ==
    IF StateAt(regex.states, n).kind = "Split"
    THEN {StateAt(regex.states, n).out1, StateAt(regex.states, n).out2} \ {None}
    ELSE {}

Closed(regex, states) == \A n \in states : SplitEdges(regex, n) \subseteq states

\* The states and everything reachable from them through Split edges only.
RECURSIVE EpsilonReach(_, _)
EpsilonReach(regex, states) ==
    IF Closed(regex, states) THEN states
    ELSE EpsilonReach(regex,
             states \cup UNION {SplitEdges(regex, n) : n \in states})

\* The union the claim gives for the next frontier.
NextFrontier(regex, states, c) ==
    EpsilonReach(regex,
        {Successor(StateAt(regex.states, n), c) : n \in states} \ {None})

\* A query under way: its frontier is the one at the top of the loop.
Live(rd) == rd.op # "none" /\ ~rd.done

FrontierClosed ==
    \A r \in DOMAIN readers :
        Live(readers[r]) =>
            /\ Closed(result, readers[r].states)
            /\ readers[r].i = 1 =>
                  /\ result.start \in readers[r].states
                  /\ readers[r].states = EpsilonReach(result, {result.start})

\* The turn of the loop reader r takes on a character, when it returns.
Consumes(r) ==
    /\ Live(readers[r])
    /\ readers[r].i <= Len(readers[r].text)
    /\ readers'[r] # readers[r]
    /\ ~readers'[r].overflow

FrontierAdvances(r) ==
    \A nf \in {NextFrontier(result, readers[r].states,
                             readers[r].text[readers[r].i])} :
        IF nf = {} THEN readers'[r].done
        ELSE Live(readers'[r]) /\ readers'[r].states = nf

\* C20: at the start of matching and after every consumed character the
\* frontier is closed under Split edges (out1 and the resolved out2 of each
\* of its Splits are in it), at the start it holds start; and the frontier
\* after a character is exactly the union, over the Transitions of the
\* frontier before whose predicate matches the character, of out and all
\* that is reachable from out through Split edges only.
C20_FrontierIsEpsilonClosed ==
    /\ []FrontierClosed
    /\ [][\A r \in DOMAIN readers : Consumes(r) => FrontierAdvances(r)]_vars

\* A query that has consumed two characters and whose frontier holds a Split
\* together with the states it leads to.
C20_Witness ==
    \E r \in DOMAIN readers :
        /\ Live(readers[r])
        /\ readers[r].i >= 3
        /\ \E n \in readers[r].states :
              /\ StateAt(result.states, n).kind = "Split"
              /\ StateAt(result.states, StateAt(result.states, n).out2).kind = "Split"
        /\ Cardinality(readers[r].states) >= 3

\* C21: concatenation(f1, f2) and union(f1, f2) return no fragment when f1
\* is absent, and return f1, with its start and its endstates, when f2 is
\* absent; in both cases the arena after the call is the arena before it: no
\* state appended, no slot patched.
C21_AbsencePropagates ==
    call.op \in {"union", "concatenation"} =>
        /\ ~call.f1.some => (~call.frag.some /\ call.after = call.before)
        /\ (call.f1.some /\ ~call.f2.some) =>
              /\ call.frag.some
              /\ call.frag.start = call.f1.start
              /\ call.frag.endstates = call.f1.endstates
              /\ call.after = call.before

\* union was called with f1 absent and f2 present on an arena with states.
C21_Witness ==
    /\ call.op = "union"
    /\ ~call.f1.some /\ call.f2.some
    /\ Len(call.before) >= 2

\* The successor slot link patches: Transition.out or Split.out2.
Slot(state) ==
    CASE state.kind = "Transition" -> state.out
      [] state.kind = "Split"      -> state.out2
      [] OTHER                     -> None

\* Every dangler of f has, in the arena, the successor to.
LinkedTo(states, f, to) ==
    \A i \in DOMAIN f.endstates : Slot(StateAt(states, f.endstates[i])) = to

\* C22: concatenation(f1, f2) with both present sets the successor of every
\* dangler of f1 to f2.start, appends no state, and returns the fragment
\* with start f1.start and endstates f2.endstates.
C22_ConcatenationLinksAndJoins ==
    (call.op = "concatenation" /\ call.f1.some /\ call.f2.some) =>
        /\ LinkedTo(call.after, call.f1, call.f2.start)
        /\ Len(call.after) = Len(call.before)
        /\ call.frag.some
        /\ call.frag.start = call.f1.start
        /\ call.frag.endstates = call.f2.endstates

\* concatenation of a fragment with two danglers and another fragment.
C22_Witness ==
    /\ call.op = "concatenation"
    /\ call.f1.some /\ call.f2.some
    /\ Len(call.f1.endstates) >= 2

\* The states a state leads to, with or without a character.
Successors(states, n) ==
    CASE StateAt(states, n).kind = "Transition" -> {StateAt(states, n).out} \ {None}
      [] StateAt(states, n).kind = "Split" ->
            {StateAt(states, n).out1, StateAt(states, n).out2} \ {None}
      [] OTHER -> {}

RECURSIVE ReachedFrom(_, _)
ReachedFrom(states, seen) ==
    IF UNION {Successors(states, n) : n \in seen} \subseteq seen THEN seen
    ELSE ReachedFrom(states, seen \cup UNION {Successors(states, n) : n \in seen})

\* The states reached from n in one step or more.
Reaches(states, n) == ReachedFrom(states, Successors(states, n))

\* The call appended exactly one state, a Split with out1 = f.start and out2
\* absent, and gave every dangler of f that Split as successor.
AppendsLoopSplit ==
    /\ Len(call.after) = Len(call.before) + 1
    /\ StateAt(call.after, Len(call.before)).kind = "Split"
    /\ StateAt(call.after, Len(call.before)).out1 = call.f1.start
    /\ StateAt(call.after, Len(call.before)).out2 = None
    /\ LinkedTo(call.after, call.f1, Len(call.before))

\* C23: kleene(f) appends exactly one Split with out1 = f.start and out2
\* unresolved, sets the successor of every dangler of f to that Split, which
\* puts the Split on a cycle, and returns the fragment whose start is the
\* Split and whose endstates is the list of the Split alone.
C23_KleeneLoopsThroughSplit ==
    call.op = "kleene" =>
        /\ AppendsLoopSplit
        /\ Len(call.before) \in Reaches(call.after, Len(call.before))
        /\ call.frag.start = Len(call.before)
        /\ call.frag.endstates = <<Len(call.before)>>

\* kleene of a fragment with two danglers.
C23_Witness ==
    /\ call.op = "kleene"
    /\ Len(call.f1.endstates) >= 2

\* C24: plus(f) appends exactly one Split with out1 = f.start and out2
\* unresolved, sets the successor of every dangler of f to that Split, and
\* returns the fragment whose start is f.start and whose endstates is the
\* list of the Split alone.
C24_PlusStartsAtBody ==
    call.op = "plus" =>
        /\ AppendsLoopSplit
        /\ call.frag.start = call.f1.start
        /\ call.frag.endstates = <<Len(call.before)>>

\* plus of a fragment with two danglers whose start is not the new Split.
C24_Witness ==
    /\ call.op = "plus"
    /\ Len(call.f1.endstates) >= 2
    /\ call.frag.start # Len(call.before)

\* The arena states, with one Match state appended to those of built and
\* every dangler of frag linked to it, all else as it was in built.
SealedFrom(states, built, frag) ==
    /\ Len(states) = Len(built) + 1
    /\ StateAt(states, Len(built)).kind = "Match"
    /\ \A n \in 0..(Len(built) - 1) :
          /\ StateAt(states, n).kind # "Match"
          /\ (\A i \in DOMAIN frag.endstates : frag.endstates[i] # n)
                => StateAt(states, n) = StateAt(built, n)
    /\ LinkedTo(states, frag, Len(built))

\* C25: on a successful parse exactly one Match state is appended, after
\* all the states the productions built (it has the highest index), every
\* dangler of the top-level fragment is linked to it, the start of the
\* automaton is the start of that fragment, and no other state is a Match.
C25_SealAppendsTheOnlyMatch ==
    result.ok =>
        \A top \in {TopLevel} :
            /\ top.frag.some
            /\ SealedFrom(result.states, top.p.states, top.frag)
            /\ result.start = top.frag.start

\* A successful parse whose top-level fragment has several danglers and
\* does not start at the first state.
C25_Witness ==
    /\ result.ok
    /\ result.start # 0
    /\ Len(TopLevel.frag.endstates) >= 2

\* b is a with at most its successor slot changed: the same variant, the
\* same character sets, the same out1.
SameButSlot(a, b) ==
    /\ a.kind = b.kind
    /\ a.kind = "Transition" =>
          (a.inclusive = b.inclusive /\ a.exclusive = b.exclusive)
    /\ a.kind = "Split" => a.out1 = b.out1

\* The arena after is the arena before with states appended and absent
\* slots patched, nothing else.
GrownFrom(before, after) ==
    /\ Len(after) >= Len(before)
    /\ \A n \in 0..(Len(before) - 1) :
          /\ SameButSlot(StateAt(before, n), StateAt(after, n))
          /\ Slot(StateAt(after, n)) # Slot(StateAt(before, n))
                => Unresolved(StateAt(before, n))

\* C26: add_state returns the length the arena had as the index of the new
\* state and leaves the states before it as they were; link(from, to)
\* changes only the successor slot of state from, leaving the length of the
\* arena, every other state, and the variant, character sets and out1 of
\* from as they were; so every operation leaves an arena grown from the one
\* it found.
C26_ArenaAppendOnlyPatchLocal ==
    /\ call.op = "add_state" =>
          /\ call.index = Len(call.before)
          /\ Len(call.after) = Len(call.before) + 1
          /\ \A n \in 0..(Len(call.before) - 1) :
                StateAt(call.after, n) = StateAt(call.before, n)
    /\ call.op = "link" =>
          /\ Len(call.after) = Len(call.before)
          /\ \A n \in 0..(Len(call.before) - 1) :
                n # call.from => StateAt(call.after, n) = StateAt(call.before, n)
          /\ SameButSlot(StateAt(call.before, call.from),
                         StateAt(call.after, call.from))
          /\ Slot(StateAt(call.after, call.from)) = call.index
    /\ call.op # "none" => GrownFrom(call.before, call.after)

\* link has patched a Transition among other states, with danglers left.
C26_Witness ==
    /\ call.op = "link"
    /\ StateAt(call.before, call.from).kind = "Transition"
    /\ Len(call.before) >= 3
    /\ call.rest # <<>>

\* range returns an error exactly when high < low, and otherwise the set of
\* the bytes v with low <= v < high.
C27_RangeIsHalfOpen ==
    call.op = "range" =>
        /\ ~call.value.ok <=> call.high < call.low
        /\ call.value.ok =>
              call.value.set = {v \in 0..255 : call.low <= v /\ v < call.high}

\* C27: range(low, high) returns an error exactly when high < low and
\* otherwise the half-open set of the bytes from low up to, not including,
\* high; and parse of the class with the inverted range, "[9-0]", returns a
\* list of errors that is not empty.
C27_InvertedRangeIsRejected ==
    /\ C27_RangeIsHalfOpen
    /\ (pc # "start" /\ pattern = Str(<<"[", "9", "-", "0", "]">>)) =>
          (~result.ok /\ Len(result.errors) > 0)

\* The parser of the pattern with k - 1 characters read.
ParserAt(k) == [Parser_new(pattern) EXCEPT !.pos = k, !.index = k - 1]

\* The production, called with r at position k, returns at position k or
\* after it, and after it when held says it has to read a character.
Advances(k, r, held) ==
    /\ r.p.pos >= k
    /\ r.p.pos <= Len(pattern) + 1
    /\ held => r.p.pos > k

\* Every production called where input remains reads at least one
\* character, by taking it or by recording it as an error; the productions
\* with an empty alternative read one whenever they go on to call another.
ParseProgresses ==
    \A k \in 1..(Len(pattern) + 1) :
        \A p \in {ParserAt(k)} :
            /\ Advances(k, parse_union(p), peek(p) # None)
            /\ Advances(k, parse_concat(p), peek(p) # None)
            /\ Advances(k, parse_unary(p), peek(p) # None)
            /\ Advances(k, parse_paren(p), peek(p) # None)
            /\ Advances(k, parse_union_prime(p),
                        peek(p) \notin {Ord[")"], None})
            /\ Advances(k, parse_concat_prime(p),
                        peek(p) \notin {Ord[")"], Ord["|"], None})

\* C28: parse returns, Ok or Err, on every pattern: a production called
\* where input remains leaves fewer characters to read than it found, an
\* unexpected token being read as its error is recorded, so every recursive
\* call starts with less input than the call it is made from.
C28_ParseTerminates ==
    /\ [](pc \in {"compiled", "rejected"} => ParseProgresses)
    /\ (pc = "start") ~> (pc \in {"compiled", "rejected"})

\* parse has returned on a pattern with nested groups and several errors.
C28_Witness ==
    /\ pc = "rejected"
    /\ Len(result.errors) >= 2
    /\ Len(pattern) >= 4
    /\ pattern[1] = Ord["("] /\ pattern[2] = Ord["("]

\* a is the beginning of b.
IsPrefix(a, b) == Len(a) <= Len(b) /\ SubSeq(b, 1, Len(a)) = a

\* C29: in every list of errors parse returns the offsets stand in the
\* order they were raised (those raised by the productions first, as the
\* parser held them, the one for trailing input last), the sequence never
\* decreases, and every offset is at most the number of characters of the
\* pattern.
C29_ErrorOffsetsOrderedAndInRange ==
    pc = "rejected" =>
        /\ IsPrefix(TopLevel.p.errors, result.errors)
        /\ Len(result.errors) <= Len(TopLevel.p.errors) + 1
        /\ \A i \in 1..(Len(result.errors) - 1) :
              result.errors[i] <= result.errors[i + 1]
        /\ \A i \in DOMAIN result.errors :
              result.errors[i] >= 0 /\ result.errors[i] <= Len(pattern)

\* A list of three errors or more, raised at different offsets.
C29_Witness ==
    /\ pc = "rejected"
    /\ Len(result.errors) >= 3
    /\ result.errors[1] < result.errors[Len(result.errors)]

=============================================================================
